---- MODULE Spec2Model ----
(***************************************************************************)
(* Model of torch/xpu/__init__.py: the lazy-initialization gate, the       *)
(* cached device count, the device-taking operations and the device and    *)
(* stream context managers.                                                *)
(*                                                                         *)
(* Spec      : NumThreads threads call init / is_initialized /             *)
(*             device_count / is_available concurrently; _lazy_init and    *)
(*             the lru_cache of device_count are interleaved line by line. *)
(* SpecLive  : the threads call init() under a fair scheduler.            *)
(* SpecSeq   : one thread calls every operation of the module and enters   *)
(*             one context manager at a time; each call runs to completion.*)
(* SpecNest  : one thread nests device guards up to MaxDepth deep.         *)
(* SpecFault : one thread enters guards while a call of the runtime may    *)
(*             raise.                                                      *)
(***************************************************************************)
EXTENDS Integers, Sequences, FiniteSets, TLC

\* ---------------------------------------------------------------- bounds
NumThreads == 2
NumDevices == 2
MaxInitFailures == 1
MaxDepth == 2

Threads == 1..NumThreads
Main == CHOOSE t \in Threads : \A u \in Threads : t <= u
Devices == 0..(NumDevices - 1)
\* Stream ids of one device: its default stream and one stream of its pool.
StreamIds == {0, 1}

\* ------------------------------------------------------------- constants
NoThread == 0
NoCache == -1
PrevUnset == -1

VARIABLES
  compiled,          \* torch._C._has_xpu
  nativeDevices,     \* what torch._C._xpu_getDeviceCount answers
  initialized,       \* _initialized
  initialization_lock, \* holder of _initialization_lock, NoThread when free
  badFork,           \* what _is_in_bad_fork() answers
  countCache,        \* the single slot of lru_cache(maxsize=1) on device_count
  nativeInited,      \* the runtime has been initialised by _xpu_init
  initFailures,      \* _xpu_init calls that raised
  initCalls,         \* _xpu_init calls made
  countCalls,        \* _xpu_getDeviceCount calls made
  flagWrites,        \* writes of _initialized that changed it
  pc,                \* per thread: the line it is at
  op,                \* per thread: the call in flight or last completed
  result,            \* per thread: outcome of the last completed call
  curDevice,         \* per thread: the runtime's current device
  curStream,         \* per thread, per device: the runtime's current stream id
  stack,             \* Main's entered context managers, innermost last
  exc,               \* Main's exception in flight while unwinding
  trace              \* Main's last call: the calls it made, in order

gateVars == <<compiled, nativeDevices, initialized, initialization_lock, badFork,
              countCache, nativeInited, initFailures, initCalls, countCalls,
              flagWrites>>
threadVars == <<pc, op, result>>
runtimeVars == <<curDevice, curStream>>
scopeVars == <<stack, exc, trace>>
vars == <<gateVars, threadVars, runtimeVars, scopeVars>>

\* ---------------------------------------------------------------- values
None == -9
NoOp == [name |-> "none", arg |-> None]
NoResult == [name |-> "none", arg |-> None, val |-> None, err |-> "none", line |-> 0]

\* The outcome of a call: what it returned (val) or raised (err), and the
\* source line of the return or raise.
Result(o, v, e, l) ==
  [name |-> o.name, arg |-> o.arg, val |-> v, err |-> e, line |-> l]

BoolVal(b) == IF b THEN 1 ELSE 0


\* ------------------------------------------------------- the module's code

\* _is_compiled(), lines 21-23
is_compiled == compiled

\* _is_in_bad_fork, line 16
is_in_bad_fork == badFork

\* is_initialized(), lines 60-62, on a value of _initialized
\* (variant: the flag alone, the bad-fork probe not asked)
IsInitializedNoProbe(initd) == initd
IsInitialized(initd) == initd /\ ~is_in_bad_fork

is_initialized == IsInitialized(initialized)

Init ==
  /\ compiled \in BOOLEAN
  /\ nativeDevices \in (IF compiled THEN {0, NumDevices} ELSE {0})
  /\ initialized = FALSE
  /\ initialization_lock = NoThread
  /\ badFork = FALSE
  /\ countCache = NoCache
  /\ nativeInited = FALSE
  /\ initFailures = 0
  /\ initCalls = 0
  /\ countCalls = 0
  /\ flagWrites = 0
  /\ pc = [t \in Threads |-> "idle"]
  /\ op = [t \in Threads |-> NoOp]
  /\ result = [t \in Threads |-> NoResult]
  /\ curDevice = [t \in Threads |-> 0]
  /\ curStream = [t \in Threads |-> [d \in Devices |-> 0]]
  /\ stack = <<>>
  /\ exc = "none"
  /\ trace = <<>>

\* A call completes: the thread is idle again and its outcome is recorded.
Finish(t, v, e, l) ==
  /\ pc' = [pc EXCEPT ![t] = "idle"]
  /\ result' = [result EXCEPT ![t] = Result(op[t], v, e, l)]
  /\ op' = op

\* init(), lines 65-71: the call starts at _lazy_init's first line.
CallInit(t) ==
  /\ pc[t] = "idle"
  /\ pc' = [pc EXCEPT ![t] = "li_check1"]
  /\ op' = [op EXCEPT ![t] = [name |-> "init", arg |-> None]]
  /\ result' = [result EXCEPT ![t] = NoResult]
  /\ UNCHANGED <<gateVars, runtimeVars, scopeVars>>

\* _lazy_init, lines 76-77: the check outside the lock.
LazyInitCheck1(t) ==
  /\ pc[t] = "li_check1"
  /\ IF is_initialized
       THEN Finish(t, None, "none", 77)
       ELSE /\ pc' = [pc EXCEPT ![t] = "li_lock"]
            /\ UNCHANGED <<op, result>>
  /\ UNCHANGED <<gateVars, runtimeVars, scopeVars>>

\* _lazy_init, line 78: with _initialization_lock (acquire).
\* (variant: the block entered without the lock)
LazyInitAcquireSkipped(t) ==
  /\ pc[t] = "li_lock"
  /\ pc' = [pc EXCEPT ![t] = "li_check2"]
  /\ UNCHANGED <<gateVars, op, result, runtimeVars, scopeVars>>
LazyInitAcquire(t) ==
  /\ pc[t] = "li_lock"
  /\ initialization_lock = NoThread
  /\ initialization_lock' = t
  /\ pc' = [pc EXCEPT ![t] = "li_check2"]
  /\ UNCHANGED <<compiled, nativeDevices, initialized, badFork, countCache,
                 nativeInited, initFailures, initCalls, countCalls, flagWrites,
                 op, result, runtimeVars, scopeVars>>

\* _lazy_init, line 81: the check repeated under the lock.
\* (variant: no check under the lock)
DoubleCheckSkipped(initd) == FALSE
DoubleCheck(initd) == IsInitialized(initd)

\* _lazy_init, lines 81-90: the double check, the bad-fork and the compiled
\* tests, under the lock; every return or raise leaves the with block.
LazyInitCheck2(t) ==
  /\ pc[t] = "li_check2"
  /\ IF DoubleCheck(initialized)
       THEN /\ Finish(t, None, "none", 82)
            /\ initialization_lock' = NoThread
       ELSE IF is_in_bad_fork
       THEN /\ Finish(t, None, "RuntimeError", 85)
            /\ initialization_lock' = NoThread
       ELSE IF ~is_compiled
       THEN /\ Finish(t, None, "AssertionError", 90)
            /\ initialization_lock' = NoThread
       ELSE /\ pc' = [pc EXCEPT ![t] = "li_native"]
            /\ UNCHANGED <<op, result, initialization_lock>>
  /\ UNCHANGED <<compiled, nativeDevices, initialized, badFork, countCache,
                 nativeInited, initFailures, initCalls, countCalls, flagWrites,
                 runtimeVars, scopeVars>>

\* torch._C._xpu_init(): initialises the runtime, or raises.  It is reached
\* only in a compiled, unforked process that is not initialized.
NativeInitOutcomes ==
  IF initFailures < MaxInitFailures /\ is_compiled /\ ~badFork /\ ~initialized
    THEN {"ok", "raise"}
    ELSE {"ok"}

\* _lazy_init, line 92: the native initialisation, under the lock.
\* (variant: the lock is not released when _xpu_init raises)
LazyInitNativeKeepsLock(t) ==
  /\ pc[t] = "li_native"
  /\ initCalls' = initCalls + 1
  /\ \E o \in NativeInitOutcomes :
       IF o = "ok"
         THEN /\ nativeInited' = TRUE
              /\ pc' = [pc EXCEPT ![t] = "li_set"]
              /\ UNCHANGED <<op, result, initFailures>>
         ELSE /\ initFailures' = initFailures + 1
              /\ Finish(t, None, "NativeError", 92)
              /\ UNCHANGED nativeInited
  /\ UNCHANGED <<compiled, nativeDevices, initialized, initialization_lock, badFork,
                 countCache, countCalls, flagWrites, runtimeVars, scopeVars>>
LazyInitNative(t) ==
  /\ pc[t] = "li_native"
  /\ initCalls' = initCalls + 1
  /\ \E o \in NativeInitOutcomes :
       IF o = "ok"
         THEN /\ nativeInited' = TRUE
              /\ pc' = [pc EXCEPT ![t] = "li_set"]
              /\ UNCHANGED <<op, result, initialization_lock, initFailures>>
         ELSE /\ initFailures' = initFailures + 1
              /\ Finish(t, None, "NativeError", 92)
              /\ initialization_lock' = NoThread
              /\ UNCHANGED nativeInited
  /\ UNCHANGED <<compiled, nativeDevices, initialized, badFork, countCache,
                 countCalls, flagWrites, runtimeVars, scopeVars>>

\* _lazy_init, line 93: _initialized = True, then the with block ends.
LazyInitSet(t) ==
  /\ pc[t] = "li_set"
  /\ initialized' = TRUE
  /\ flagWrites' = flagWrites + BoolVal(~initialized)
  /\ initialization_lock' = NoThread
  /\ Finish(t, None, "none", 93)
  /\ UNCHANGED <<compiled, nativeDevices, badFork, countCache, nativeInited,
                 initFailures, initCalls, countCalls, runtimeVars, scopeVars>>

\* is_initialized(), lines 60-62, as a call.
CallIsInitialized(t) ==
  /\ pc[t] = "idle"
  /\ op' = [op EXCEPT ![t] = [name |-> "is_initialized", arg |-> None]]
  /\ result' = [result EXCEPT ![t] =
                  Result(op'[t], BoolVal(is_initialized), "none", 62)]
  /\ UNCHANGED <<pc, gateVars, runtimeVars, scopeVars>>

\* torch._C._xpu_getDeviceCount(): the binding exists only in a build with XPU.
NativeGetDeviceCount ==
  IF compiled THEN [val |-> nativeDevices, err |-> "none", native |-> 1]
  ELSE [val |-> None, err |-> "AttributeError", native |-> 0]

\* device_count's body, lines 44-46.
\* (variant: without the _is_compiled() test)
device_count_unguarded == NativeGetDeviceCount
device_count_body ==
  IF ~is_compiled THEN [val |-> 0, err |-> "none", native |-> 0]
  ELSE NativeGetDeviceCount

\* What the caller of device_count() gets from the value the cache wrapper
\* hands back: device_count itself (line 42) or is_available (line 52).
Answer(o, v) == IF o.name = "is_available" THEN BoolVal(v > 0) ELSE v
AnswerLine(o) == IF o.name = "is_available" THEN 52 ELSE 46

\* device_count(), line 42, or is_available(), lines 49-52: the call enters
\* the lru_cache wrapper of line 41.
CallDeviceCount(t) ==
  /\ pc[t] = "idle"
  /\ \E n \in {"device_count", "is_available"} :
       op' = [op EXCEPT ![t] = [name |-> n, arg |-> None]]
  /\ pc' = [pc EXCEPT ![t] = "dc_lookup"]
  /\ result' = [result EXCEPT ![t] = NoResult]
  /\ UNCHANGED <<gateVars, runtimeVars, scopeVars>>

\* lru_cache, line 41: a hit answers from the slot, a miss runs the body.
\* (variant: no cache, every call runs the body)
CacheLookupAlwaysMiss(t) ==
  /\ pc[t] = "dc_lookup"
  /\ pc' = [pc EXCEPT ![t] = "dc_body"]
  /\ UNCHANGED <<op, result, gateVars, runtimeVars, scopeVars>>
CacheLookup(t) ==
  /\ pc[t] = "dc_lookup"
  /\ IF countCache # NoCache
       THEN Finish(t, Answer(op[t], countCache), "none", AnswerLine(op[t]))
       ELSE /\ pc' = [pc EXCEPT ![t] = "dc_body"]
            /\ UNCHANGED <<op, result>>
  /\ UNCHANGED <<gateVars, runtimeVars, scopeVars>>

\* device_count's body after a miss, lines 44-46, and the wrapper storing the
\* value it returned; a raise stores nothing.
CacheMiss(t) ==
  /\ pc[t] = "dc_body"
  /\ LET r == device_count_body IN
       /\ countCalls' = countCalls + r.native
       /\ countCache' = IF r.err = "none" THEN r.val ELSE countCache
       /\ IF r.err = "none"
            THEN Finish(t, Answer(op[t], r.val), "none", AnswerLine(op[t]))
            ELSE Finish(t, None, r.err, 46)
  /\ UNCHANGED <<compiled, nativeDevices, initialized, initialization_lock,
                 badFork, nativeInited, initFailures, initCalls, flagWrites,
                 runtimeVars, scopeVars>>

\* The process forks after the runtime was initialised and the child goes on
\* without re-initialising: from then on the bad-fork probe answers true.
Fork ==
  /\ \A t \in Threads : pc[t] = "idle"
  /\ nativeInited
  /\ ~badFork
  /\ badFork' = TRUE
  /\ UNCHANGED <<compiled, nativeDevices, initialized, initialization_lock,
                 countCache, nativeInited, initFailures, initCalls, countCalls,
                 flagWrites, threadVars, runtimeVars, scopeVars>>


\* ------------------------------------------------ calls run to completion
\* A call of Main that runs without interleaving is computed on a record m
\* of the state it reads and writes: the gate (init, ninit, fails, icalls,
\* fw), the cache (cache, ccalls), the runtime (dev, str), the calls made so
\* far (tr) and the outcome (val, or err raised at line).

\* A stream (stream_id, device_index) as one number, and its parts.
Stream(id, d) == d * Cardinality(StreamIds) + id
StreamDevice(s) == s \div Cardinality(StreamIds)
StreamId(s) == s % Cardinality(StreamIds)
\* The streams there are: those of the devices the runtime has.
Streams == {Stream(i, d) : i \in StreamIds, d \in 0..(nativeDevices - 1)}

\* A fault of the runtime: the torch._C call fn on device i raises, changing
\* nothing.  No call of Spec, SpecSeq or SpecNest meets one.
NoFault == <<"none", None>>

Start ==
  [fault |-> NoFault, init |-> initialized, ninit |-> nativeInited, fails |-> initFailures,
   icalls |-> initCalls, fw |-> flagWrites, cache |-> countCache,
   ccalls |-> countCalls, dev |-> curDevice[Main], str |-> curStream[Main],
   tr |-> <<>>, val |-> None, err |-> "none", line |-> 0]

Ev(m, fn, a, b) == [m EXCEPT !.tr = Append(@, [fn |-> fn, a |-> a, b |-> b])]
Raise(m, e, l) == [m EXCEPT !.err = e, !.line = l, !.val = None]
Return(m, v, l) == [m EXCEPT !.val = v, !.line = l]
Ok(m) == m.err = "none"

\* _lazy_init(), lines 74-93, with the lock free; o is what _xpu_init does.
\* A normal return is logged as "_lazy_init".
\* (variant: _xpu_init called again when it raised)
lazy_init_retrying(m, o) ==
  IF IsInitialized(m.init) THEN Ev(m, "_lazy_init", 77, None)
  ELSE IF DoubleCheck(m.init) THEN Ev(m, "_lazy_init", 82, None)
  ELSE IF is_in_bad_fork THEN Raise(m, "RuntimeError", 85)
  ELSE IF ~is_compiled THEN Raise(m, "AssertionError", 90)
  ELSE LET m1 == Ev([m EXCEPT !.icalls = @ + 1], "_xpu_init", None, None)
           m2 == IF o = "ok" THEN m1
                 ELSE Ev([m1 EXCEPT !.icalls = @ + 1, !.fails = @ + 1],
                         "_xpu_init", None, None)
       IN Ev([m2 EXCEPT !.ninit = TRUE, !.init = TRUE, !.fw = @ + BoolVal(~m.init)],
             "_lazy_init", 93, None)
lazy_init(m, o) ==
  IF IsInitialized(m.init) THEN Ev(m, "_lazy_init", 77, None)
  ELSE IF DoubleCheck(m.init) THEN Ev(m, "_lazy_init", 82, None)
  ELSE IF is_in_bad_fork THEN Raise(m, "RuntimeError", 85)
  ELSE IF ~is_compiled THEN Raise(m, "AssertionError", 90)
  ELSE LET m1 == Ev([m EXCEPT !.icalls = @ + 1], "_xpu_init", None, None) IN
       IF o = "ok"
         THEN Ev([m1 EXCEPT !.ninit = TRUE, !.init = TRUE,
                            !.fw = @ + BoolVal(~m.init)],
                 "_lazy_init", 93, None)
         ELSE Raise([m1 EXCEPT !.fails = @ + 1], "NativeError", 92)

\* device_count() through its lru_cache, lines 41-46.
device_count(m) ==
  IF m.cache # NoCache THEN Return(m, m.cache, 46)
  ELSE LET r == device_count_body
           m1 == IF r.native = 1
                   THEN Ev([m EXCEPT !.ccalls = @ + 1], "_xpu_getDeviceCount", None, None)
                   ELSE m
       IN IF r.err = "none"
            THEN Return([m1 EXCEPT !.cache = r.val], r.val, 46)
            ELSE Raise(m1, r.err, 46)

\* _get_device_index (torch/xpu/_utils.py): an integer is its own index; an
\* absent reference is the current device, or -1 when there is none.
get_device_index(m, device) ==
  IF device = None
    THEN (IF is_compiled /\ nativeDevices > 0 THEN m.dev ELSE -1)
    ELSE device

InRange(i) == i >= 0 /\ i < nativeDevices

\* torch._C._xpu_setDevice
NativeSetDevice(m, i) ==
  LET m1 == Ev(m, "_xpu_setDevice", i, None) IN
  IF InRange(i) THEN [m1 EXCEPT !.dev = i] ELSE Raise(m1, "NativeError", 154)

\* torch._C._xpu_exchangeDevice: a negative index changes nothing and
\* answers -1; otherwise the device is set and the previous one answered.
NativeExchangeDevice(m, i, l) ==
  LET m1 == Ev(m, "_xpu_exchangeDevice", i, None) IN
  IF m.fault = <<"_xpu_exchangeDevice", i>> THEN Raise(m1, "NativeError", l)
  ELSE IF i < 0 THEN Return(m1, -1, l)
  ELSE IF InRange(i) THEN Return([m1 EXCEPT !.dev = i], m.dev, l)
  ELSE Raise(m1, "NativeError", l)

\* torch._C._xpu_maybeExchangeDevice: as the exchange.
NativeMaybeExchangeDevice(m, i, l) ==
  LET m1 == Ev(m, "_xpu_maybeExchangeDevice", i, None) IN
  IF i < 0 THEN Return(m1, -1, l)
  ELSE IF InRange(i) THEN Return([m1 EXCEPT !.dev = i], m.dev, l)
  ELSE Raise(m1, "NativeError", l)

\* torch._C._xpu_getCurrentStream: -1 stands for the current device.
NativeGetCurrentStream(m, i, l) ==
  LET d == IF i = -1 THEN m.dev ELSE i
      m1 == Ev(m, "_xpu_getCurrentStream", i, None) IN
  IF m.fault = <<"_xpu_getCurrentStream", d>> THEN Raise(m1, "NativeError", l)
  ELSE IF InRange(d) THEN Return(m1, Stream(m.str[d], d), l)
  ELSE Raise(m1, "NativeError", l)

\* torch._C._xpu_setStream: the stream becomes current on its own device.
NativeSetStream(m, s, l) ==
  LET m1 == Ev(m, "_xpu_setStream", StreamId(s), StreamDevice(s)) IN
  IF m.fault = <<"_xpu_setStream", StreamDevice(s)>> THEN Raise(m1, "NativeError", l)
  ELSE Return([m1 EXCEPT !.str = [@ EXCEPT ![StreamDevice(s)] = StreamId(s)]], None, l)

\* torch._C._xpu_synchronize: blocks on the device, -1 standing for the
\* current one.
NativeSynchronize(m, i, l) ==
  LET d == IF i = -1 THEN m.dev ELSE i
      m1 == Ev(m, "_xpu_synchronize", i, None) IN
  IF InRange(d) THEN Return(m1, None, l) ELSE Raise(m1, "NativeError", l)

\* _get_device_properties: the snapshot of device i, named by i.
NativeGetDeviceProperties(m, i, l) ==
  Return(Ev(m, "_get_device_properties", i, None), i, l)

\* _exchange_device / _maybe_exchange_device, lines 26-38: the bindings, or
\* the dummies that raise.
\* (variant: the binding taken whether compiled or not)
exchange_device_bound(m, i, l) == NativeExchangeDevice(m, i, l)
exchange_device(m, i, l) ==
  IF is_compiled THEN NativeExchangeDevice(m, i, l)
  ELSE Raise(m, "NotImplementedError", 35)

maybe_exchange_device(m, i, l) ==
  IF is_compiled THEN NativeMaybeExchangeDevice(m, i, l)
  ELSE Raise(m, "NotImplementedError", 38)

\* set_device(device), lines 144-154
\* (variant: without the _lazy_init() call)
set_device_ungated(m, device, o) ==
  LET i == get_device_index(m, device) IN
  IF i >= 0 THEN NativeSetDevice(m, i) ELSE Return(m, None, 153)
set_device(m, device, o) ==
  LET m1 == lazy_init(m, o) IN
  IF ~Ok(m1) THEN m1
  ELSE LET i == get_device_index(m1, device) IN
       IF i >= 0 THEN NativeSetDevice(m1, i) ELSE Return(m1, None, 153)

\* The index test of get_device_properties, line 205; device_count() is
\* called only for a non-negative index.
\* (variant: > for >=)
InvalidIndexOffByOne(i, n) == i < 0 \/ i > n
InvalidIndex(i, n) == i < 0 \/ i >= n

\* get_device_properties(device), lines 193-207
get_device_properties(m, device, o) ==
  LET m1 == lazy_init(m, o) IN
  IF ~Ok(m1) THEN m1
  ELSE LET i == get_device_index(m1, device)
           m2 == IF i < 0 THEN m1 ELSE device_count(m1)
       IN IF ~Ok(m2) THEN m2
          ELSE IF InvalidIndex(i, m2.val) THEN Raise(m2, "AssertionError", 206)
          ELSE NativeGetDeviceProperties(m2, i, 207)

\* get_device_name(device), line 169, and get_device_capability(device),
\* lines 185-190: both read fields of get_device_properties(device).
get_device_name(m, device, o) == get_device_properties(m, device, o)
get_device_capability(m, device, o) == get_device_properties(m, device, o)

\* current_device(), lines 210-213
current_device(m, o) ==
  LET m1 == lazy_init(m, o) IN
  IF ~Ok(m1) THEN m1
  ELSE Return(Ev(m1, "_xpu_getDevice", None, None), m1.dev, 213)

\* current_stream(device), lines 314-329
current_stream(m, device, o) ==
  LET m1 == lazy_init(m, o) IN
  IF ~Ok(m1) THEN m1
  ELSE NativeGetCurrentStream(m1, get_device_index(m1, device), 324)

\* set_stream(stream), lines 295-311
set_stream(m, stream, o) ==
  IF stream = None THEN Return(m, None, 305)
  ELSE LET m1 == lazy_init(m, o) IN
       IF ~Ok(m1) THEN m1 ELSE NativeSetStream(m1, stream, 307)

\* synchronize(device), lines 332-342
synchronize(m, device, o) ==
  LET m1 == lazy_init(m, o) IN
  IF ~Ok(m1) THEN m1
  ELSE NativeSynchronize(m1, get_device_index(m1, device), 342)

\* What a call may be given.
DeviceArgs == {None, -1} \cup (0..NumDevices)
StreamArgs == {None} \cup Streams

\* The state after a call of Main that ended as m.
Commit(m) ==
  /\ initialized' = m.init
  /\ nativeInited' = m.ninit
  /\ initFailures' = m.fails
  /\ initCalls' = m.icalls
  /\ flagWrites' = m.fw
  /\ countCache' = m.cache
  /\ countCalls' = m.ccalls
  /\ curDevice' = [curDevice EXCEPT ![Main] = m.dev]
  /\ curStream' = [curStream EXCEPT ![Main] = m.str]
  /\ trace' = m.tr
  /\ UNCHANGED <<compiled, nativeDevices, badFork, initialization_lock, exc>>

\* Main may call when it runs no call and no exception is in flight.
Ready == pc[Main] = "idle" /\ exc = "none" /\ initialization_lock = NoThread

\* A call of Main named n with argument a ended as m.
Done(n, a, m) ==
  /\ Commit(m)
  /\ pc' = [pc EXCEPT ![Main] = "returned"]
  /\ op' = [op EXCEPT ![Main] = [name |-> n, arg |-> a]]
  /\ result' = [result EXCEPT ![Main] =
                  [name |-> n, arg |-> a, val |-> m.val, err |-> m.err,
                   line |-> m.line]]

SetDevice ==
  /\ Ready
  /\ \E d \in DeviceArgs, o \in NativeInitOutcomes :
       Done("set_device", d, set_device(Start, d, o))
  /\ UNCHANGED stack

GetDeviceProperties ==
  /\ Ready
  /\ \E d \in DeviceArgs, o \in NativeInitOutcomes :
       Done("get_device_properties", d, get_device_properties(Start, d, o))
  /\ UNCHANGED stack

GetDeviceName ==
  /\ Ready
  /\ \E d \in DeviceArgs, o \in NativeInitOutcomes :
       Done("get_device_name", d, get_device_name(Start, d, o))
  /\ UNCHANGED stack

GetDeviceCapability ==
  /\ Ready
  /\ \E d \in DeviceArgs, o \in NativeInitOutcomes :
       Done("get_device_capability", d, get_device_capability(Start, d, o))
  /\ UNCHANGED stack

CurrentDevice ==
  /\ Ready
  /\ \E o \in NativeInitOutcomes :
       Done("current_device", None, current_device(Start, o))
  /\ UNCHANGED stack

CurrentStream ==
  /\ Ready
  /\ \E d \in DeviceArgs, o \in NativeInitOutcomes :
       Done("current_stream", d, current_stream(Start, d, o))
  /\ UNCHANGED stack

SetStream ==
  /\ Ready
  /\ \E s \in StreamArgs, o \in NativeInitOutcomes :
       Done("set_stream", s, set_stream(Start, s, o))
  /\ UNCHANGED stack

Synchronize ==
  /\ Ready
  /\ \E d \in DeviceArgs, o \in NativeInitOutcomes :
       Done("synchronize", d, synchronize(Start, d, o))
  /\ UNCHANGED stack

DeviceCount ==
  /\ Ready
  /\ Done("device_count", None, device_count(Start))
  /\ UNCHANGED stack

\* is_available(), lines 49-52
IsAvailable ==
  /\ Ready
  /\ LET m == device_count(Start) IN
       Done("is_available", None,
            IF Ok(m) THEN Return(m, BoolVal(m.val > 0), 52) ELSE m)
  /\ UNCHANGED stack

\* init(), lines 65-71
InitCall ==
  /\ Ready
  /\ \E o \in NativeInitOutcomes :
       Done("init", None, lazy_init(Start, o))
  /\ UNCHANGED stack

\* ------------------------------------------------------- context managers
\* An entered context manager: a device (lines 109-126) with idx and
\* prev_idx, or a StreamContext (lines 229-269) with stream, idx,
\* src_prev_stream and dst_prev_stream (None while unset).  preDev is the
\* current device just before __enter__ and, for a StreamContext, preStr the
\* current streams just before __enter__.
Frame(k, i, p, s, sp, dp) ==
  [kind |-> k, idx |-> i, prev_idx |-> p, stream |-> s, src_prev |-> sp,
   dst_prev |-> dp, preDev |-> curDevice[Main],
   preStr |-> IF k = "stream" THEN curStream[Main] ELSE <<>>]

\* An exception e leaves a context manager's with block through m, the run
\* of its __exit__: it goes on unless __exit__ itself raised.
Unwind(m, e, l) == IF Ok(m) THEN Raise(m, e, l) ELSE m

Cleared(m) == [m EXCEPT !.err = "none"]

\* device.__init__(device), lines 117-119: the index of the new guard.
device_init(m, device) == get_device_index(m, device)

\* device.__enter__, lines 121-122: answers prev_idx.
device_enter(m, idx) == exchange_device(m, idx, 122)

\* device.__exit__, lines 124-126: restores prev_idx; answers False.
\* (variants: nothing restored; a true answer)
device_exit_skipped(m, prev_idx) == Return(m, BoolVal(FALSE), 126)
device_exit_swallows(m, prev_idx) ==
  LET m1 == maybe_exchange_device(m, prev_idx, 125) IN
  IF Ok(m1) THEN Return(m1, BoolVal(TRUE), 126) ELSE m1
device_exit(m, prev_idx) ==
  LET m1 == maybe_exchange_device(m, prev_idx, 125) IN
  IF Ok(m1) THEN Return(m1, BoolVal(FALSE), 126) ELSE m1

\* StreamContext.__init__(stream), lines 242-247: the index of the context.
stream_context_init(m) ==
  LET i == get_device_index(m, None) IN IF i = None THEN -1 ELSE i

\* The no-op test of StreamContext.__enter__ and __exit__, lines 251 and 263.
\* (variant: the stream is not tested)
StreamNoOpIdxOnly(s, idx) == idx = -1
StreamNoOp(s, idx) == s = None \/ idx = -1

\* with device(cur_stream.device): dst_prev_stream = current_stream(...),
\* lines 257-258: answers dst_prev_stream.
\* (variant: the device exchanged and set back by hand, not set back when the
\* query raises)
stream_enter_switch_unguarded(m, s, o) ==
  LET d == StreamDevice(s)
      m1 == device_enter(m, device_init(m, d)) IN
  IF ~Ok(m1) THEN m1
  ELSE LET prev == m1.val
           m2 == current_stream(m1, d, o) IN
       IF ~Ok(m2) THEN m2
       ELSE LET m3 == device_exit(m2, prev) IN
            IF ~Ok(m3) THEN m3 ELSE Return(m3, m2.val, 258)
\* (variant: the current stream asked without the device guard)
stream_enter_unswitched(m, s, o) ==
  LET m1 == current_stream(m, None, o) IN
  IF Ok(m1) THEN Return(m1, m1.val, 258) ELSE m1
stream_enter_switch(m, s, o) ==
  LET d == StreamDevice(s)
      m1 == device_enter(m, device_init(m, d)) IN
  IF ~Ok(m1) THEN m1
  ELSE LET prev == m1.val
           m2 == current_stream(m1, d, o)
           m3 == device_exit(Cleared(m2), prev) IN
       IF ~Ok(m2) THEN Unwind(m3, m2.err, m2.line)
       ELSE IF ~Ok(m3) THEN m3
       ELSE Return(m3, m2.val, 258)

\* StreamContext.__enter__, lines 249-259: answers the pair
\* <<src_prev_stream, dst_prev_stream>> in fields src and dst.
stream_enter(m, s, idx, o) ==
  IF StreamNoOp(s, idx)
    THEN [run |-> Return(m, None, 252), src |-> None, dst |-> None]
  ELSE LET m1 == current_stream(m, None, o) IN
       IF ~Ok(m1) THEN [run |-> m1, src |-> None, dst |-> None]
       ELSE LET src == m1.val
                switch == StreamDevice(src) # StreamDevice(s)
                m2 == IF switch THEN stream_enter_switch(m1, s, o) ELSE m1
            IN IF ~Ok(m2) THEN [run |-> m2, src |-> src, dst |-> None]
               ELSE LET m3 == set_stream(m2, s, o) IN
                    [run |-> IF Ok(m3) THEN Return(m3, None, 259) ELSE m3,
                     src |-> src,
                     dst |-> IF switch THEN m2.val ELSE None]

\* A call of set_stream(s) made at line l, logged as "set_stream" before it
\* runs.
call_set_stream(m, s, l, o) == set_stream(Ev(m, "set_stream", s, l), s, o)

\* StreamContext.__exit__, lines 261-269: answers None.
\* (variants: only src_prev_stream is set back; src_prev_stream set back
\* first)
stream_exit_src_only(m, f, o) ==
  IF StreamNoOp(f.stream, f.idx) THEN Return(m, 0, 264)
  ELSE LET m2 == call_set_stream(m, f.src_prev, 269, o) IN
       IF Ok(m2) THEN Return(m2, 0, 269) ELSE m2
stream_exit_src_first(m, f, o) ==
  IF StreamNoOp(f.stream, f.idx) THEN Return(m, 0, 264)
  ELSE LET switch == StreamDevice(f.src_prev) # StreamDevice(f.stream)
           m1 == call_set_stream(m, f.src_prev, 269, o)
       IN IF ~Ok(m1) THEN m1
          ELSE LET m2 == IF switch THEN call_set_stream(m1, f.dst_prev, 268, o) ELSE m1 IN
               IF Ok(m2) THEN Return(m2, 0, 269) ELSE m2
stream_exit(m, f, o) ==
  IF StreamNoOp(f.stream, f.idx) THEN Return(m, 0, 264)
  ELSE LET switch == StreamDevice(f.src_prev) # StreamDevice(f.stream)
           m1 == IF switch THEN call_set_stream(m, f.dst_prev, 268, o) ELSE m
       IN IF ~Ok(m1) THEN m1
          ELSE LET m2 == call_set_stream(m1, f.src_prev, 269, o) IN
               IF Ok(m2) THEN Return(m2, 0, 269) ELSE m2

\* with device(d): the guard is made and entered; it is on the stack when
\* __enter__ returned.
\* (variant: prev_idx is one slot shared by every guard)
DeviceEnterSharedPrev ==
  /\ Ready
  /\ \E d \in DeviceArgs :
       LET idx == device_init(Start, d)
           m == device_enter(Start, idx) IN
         /\ Done("device.__enter__", d, IF Ok(m) THEN Return(m, None, 122) ELSE m)
         /\ stack' = IF Ok(m)
                       THEN Append([i \in DOMAIN stack |->
                                      [stack[i] EXCEPT !.prev_idx = m.val]],
                                   Frame("device", idx, m.val, None, None, None))
                       ELSE stack
DeviceEnter ==
  /\ Ready
  /\ \E d \in DeviceArgs :
       LET idx == device_init(Start, d)
           m == device_enter(Start, idx) IN
         /\ Done("device.__enter__", d, IF Ok(m) THEN Return(m, None, 122) ELSE m)
         /\ stack' = IF Ok(m)
                       THEN Append(stack, Frame("device", idx, m.val, None, None, None))
                       ELSE stack

\* with stream(s): the context is made and entered.
StreamEnter ==
  /\ Ready
  /\ \E s \in StreamArgs, o \in NativeInitOutcomes :
       LET idx == stream_context_init(Start)
           e == stream_enter(Start, s, idx, o) IN
         /\ Done("StreamContext.__enter__", s, e.run)
         /\ stack' = IF Ok(e.run)
                       THEN Append(stack, Frame("stream", idx, PrevUnset, s, e.src, e.dst))
                       ELSE stack

Top == stack[Len(stack)]
Pop == SubSeq(stack, 1, Len(stack) - 1)

\* The innermost with block ends, normally or with the exception in flight:
\* __exit__ runs; a true answer would swallow the exception.  The result
\* holds what leaves the with statement; the context manager stays on the
\* stack until control leaves the statement.
ExitOutcome(m) ==
  IF ~Ok(m) THEN m
  ELSE IF exc # "none" /\ m.val # 1 THEN [m EXCEPT !.err = exc]
  ELSE m

DeviceExit ==
  /\ pc[Main] = "idle"
  /\ stack # <<>>
  /\ Top.kind = "device"
  /\ Done("device.__exit__", Top.idx, ExitOutcome(device_exit(Start, Top.prev_idx)))
  /\ UNCHANGED stack

StreamExit ==
  /\ pc[Main] = "idle"
  /\ stack # <<>>
  /\ Top.kind = "stream"
  /\ \E o \in NativeInitOutcomes :
       Done("StreamContext.__exit__", Top.stream, ExitOutcome(stream_exit(Start, Top, o)))
  /\ UNCHANGED stack

IsExit(n) == n \in {"device.__exit__", "StreamContext.__exit__"}

\* Control leaves the call that ended: after an __exit__ the with statement
\* is left and its context manager dropped; what the call raised goes on to
\* the enclosing with block, if there is one.
Resume ==
  /\ pc[Main] = "returned"
  /\ pc' = [pc EXCEPT ![Main] = "idle"]
  /\ stack' = IF IsExit(result[Main].name) THEN Pop ELSE stack
  /\ exc' = IF stack' = <<>> THEN "none" ELSE result[Main].err
  /\ op' = [op EXCEPT ![Main] = NoOp]
  /\ result' = [result EXCEPT ![Main] = NoResult]
  /\ trace' = <<>>
  /\ UNCHANGED <<gateVars, runtimeVars>>

\* One with block at a time.
Outermost == stack = <<>>

NextSeq ==
  \/ Resume
  \/ (Outermost /\ DeviceEnter)
  \/ (Outermost /\ StreamEnter)
  \/ DeviceExit
  \/ StreamExit
  \/ Fork
  \/ SetDevice
  \/ GetDeviceProperties
  \/ GetDeviceName
  \/ GetDeviceCapability
  \/ CurrentDevice
  \/ CurrentStream
  \/ SetStream
  \/ Synchronize
  \/ DeviceCount
  \/ IsAvailable
  \/ InitCall

Next ==
  \/ Fork
  \/ \E t \in Threads :
    \/ CallDeviceCount(t)
    \/ CacheLookup(t)
    \/ CacheMiss(t)
    \/ CallInit(t)
    \/ LazyInitCheck1(t)
    \/ LazyInitAcquire(t)
    \/ LazyInitCheck2(t)
    \/ LazyInitNative(t)
    \/ LazyInitSet(t)
    \/ CallIsInitialized(t)

Spec == Init /\ [][Next]_vars

\* ------------------------------------------------------------------ claims
R == result[Main]
Returned == pc[Main] = "returned"
Called(n) == Returned /\ R.name = n

\* What the trace logs that is no call into the runtime, or is _xpu_init.
NotRuntime == {"_lazy_init", "_xpu_init", "set_stream"}

\* The calls of the last call of Main into the runtime, _xpu_init apart.
RuntimeCalls == {i \in DOMAIN trace : trace[i].fn \notin NotRuntime}
Calls(fn) == {i \in DOMAIN trace : trace[i].fn = fn}
GatePassed == Calls("_lazy_init") # {}

AllReturnedFromInit ==
  \A t \in Threads : pc[t] = "idle" /\ result[t].name = "init" /\ result[t].err = "none"

\* C1: when the threads call init() concurrently on an uninitialized process
\* (backend compiled in, no bad fork, _xpu_init not raising), _xpu_init is
\* called at most once under every interleaving, and once every thread has
\* returned from init() it has been called exactly once and is_initialized()
\* is true.
C1_OneNativeInit ==
  initFailures = 0 =>
    /\ initCalls <= 1
    /\ (AllReturnedFromInit /\ ~badFork) => (initCalls = 1 /\ is_initialized)

\* C1 witness: every thread has returned from init(), one of them after
\* waiting for the lock and finding the work done (line 82).
C1_Witness ==
  /\ AllReturnedFromInit
  /\ initFailures = 0 /\ ~badFork /\ initCalls = 1
  /\ \E t \in Threads : result[t].line = 93
  /\ \E t \in Threads : result[t].line = 82

DeviceRequiring ==
  {"set_device", "get_device_properties", "current_device", "current_stream",
   "set_stream", "synchronize"}

\* C2: once the bad-fork probe answers true, a call of set_device,
\* get_device_properties, current_device, current_stream, set_stream (with a
\* stream) or synchronize raises the re-initialization RuntimeError of line
\* 85 and makes no call into the runtime, _xpu_init included.
C2_BadForkIsFatal ==
  (Returned /\ badFork /\ R.name \in DeviceRequiring
     /\ ~(R.name = "set_stream" /\ R.arg = None)) =>
    (R.err = "RuntimeError" /\ R.line = 85 /\ trace = <<>>)

\* C2 witness: synchronize() was called in the child of a fork of an
\* initialized process and raised.
C2_Witness ==
  /\ Called("synchronize") /\ badFork /\ initialized
  /\ R.err = "RuntimeError"

AtExit(k) == Returned /\ IsExit(R.name) /\ Top.kind = k

\* C3: a device guard entered with an index A in [0, device_count) while the
\* device was B leaves the device B when it has exited.
C3_DeviceRoundTrip ==
  (AtExit("device") /\ InRange(Top.idx)) => curDevice[Main] = Top.preDev

\* C3 witness: a guard that switched to another device has exited and the
\* device current at its entry is current again.
C3_Witness ==
  /\ AtExit("device") /\ InRange(Top.idx)
  /\ Top.idx # Top.preDev
  /\ R.err = "none"
  /\ curDevice[Main] = Top.preDev

\* The stream context on top of the stack took a stream of another device
\* than the one current at its entry.
CrossDevice ==
  /\ Top.stream # None /\ Top.idx # -1
  /\ StreamDevice(Top.stream) # Top.preDev

\* C4: a StreamContext entered with a stream of device D1 while D0 # D1 was
\* current leaves, when it has exited, the stream of D0 and the stream of D1
\* as they were before entry (the process not forking in between).
C4_StreamRoundTrip ==
  (AtExit("stream") /\ CrossDevice /\ ~badFork) =>
    /\ curStream[Main][Top.preDev] = Top.preStr[Top.preDev]
    /\ curStream[Main][StreamDevice(Top.stream)] = Top.preStr[StreamDevice(Top.stream)]

\* C4 witness: a cross-device stream context whose stream was not the current
\* one of its device has exited, and every stream is as before entry.
C4_Witness ==
  /\ AtExit("stream") /\ CrossDevice /\ ~badFork
  /\ R.err = "none"
  /\ StreamId(Top.stream) # Top.preStr[StreamDevice(Top.stream)]
  /\ curStream[Main] = Top.preStr

\* C5 as claimed: after any guard's exit the device (device guard) and every
\* device's stream (stream guard) are as before entry, and an exception of
\* the block goes on.
C5_Original ==
  (Returned /\ IsExit(R.name)) =>
    /\ Top.kind = "device" => curDevice[Main] = Top.preDev
    /\ Top.kind = "stream" => curStream[Main] = Top.preStr
    /\ exc # "none" => R.err = exc

\* C5 as amended: on every exit path a device guard with a non-negative
\* index restores the device; a stream guard with a stream, in a process that
\* did not fork inside the block, restores the stream of the device current
\* at entry and of its stream's device; an exception of the block is never
\* swallowed, and goes on unchanged unless __exit__ itself raised.
C5_RestoreOnExit ==
  (Returned /\ IsExit(R.name)) =>
    /\ (Top.kind = "device" /\ Top.idx >= 0) => curDevice[Main] = Top.preDev
    /\ (Top.kind = "stream" /\ Top.stream # None /\ Top.idx # -1 /\ ~badFork) =>
         /\ curStream[Main][Top.preDev] = Top.preStr[Top.preDev]
         /\ curStream[Main][StreamDevice(Top.stream)]
              = Top.preStr[StreamDevice(Top.stream)]
    /\ exc # "none" => R.err # "none"
    /\ (exc # "none" /\ ~badFork) => R.err = exc

\* C5 witness: a block under a device guard that switched the device raised,
\* the guard has exited, the device is back and the exception goes on.
C5_Witness ==
  /\ AtExit("device") /\ Top.idx >= 0 /\ Top.idx # Top.preDev
  /\ exc = "AssertionError" /\ R.err = exc
  /\ curDevice[Main] = Top.preDev

\* C6: without the backend compiled in, device_count() returns 0 and
\* is_available() returns false, neither raising, on every call.
C6_AbsentBackend ==
  ~compiled =>
    \A t \in Threads :
      /\ result[t].name = "device_count" => (result[t].val = 0 /\ result[t].err = "none")
      /\ result[t].name = "is_available" => (result[t].val = 0 /\ result[t].err = "none")

\* C6 witness: one thread's init() has failed for want of the backend, and
\* device_count() and is_available() have answered.
C6_Witness ==
  /\ ~compiled /\ countCache = 0
  /\ \E t, u \in Threads :
       /\ result[t].name = "init" /\ result[t].err = "AssertionError"
       /\ result[u].name = "is_available" /\ result[u].val = 0

\* device_count() as the caller of the last call sees it.
DeviceCountValue == IF compiled THEN nativeDevices ELSE 0

\* C7: get_device_properties(i) with i outside [0, device_count()) raises and
\* never reaches the native lookup, the raise being the AssertionError of line
\* 206 whenever the initialization gate was passed; with i inside the range
\* and the gate passed it returns what the native lookup of i answers.
C7_PropertiesIndexChecked ==
  (Called("get_device_properties") /\ R.arg # None) =>
    /\ (R.arg < 0 \/ R.arg >= DeviceCountValue) =>
         /\ R.err # "none"
         /\ Calls("_get_device_properties") = {}
         /\ GatePassed => (R.err = "AssertionError" /\ R.line = 206)
    /\ (R.arg >= 0 /\ R.arg < DeviceCountValue /\ GatePassed) =>
         /\ R.err = "none" /\ R.val = R.arg
         /\ trace[Len(trace)] = [fn |-> "_get_device_properties", a |-> R.arg, b |-> None]

\* C7 witness: get_device_properties(device_count()) on an initialized
\* process with devices raised at line 206.
C7_Witness ==
  /\ Called("get_device_properties") /\ R.arg = DeviceCountValue
  /\ nativeDevices > 0 /\ GatePassed
  /\ R.err = "AssertionError" /\ R.line = 206

TakesIndex ==
  {"set_device", "get_device_name", "get_device_capability",
   "get_device_properties", "synchronize", "device.__enter__"}

\* C8 as claimed: in a process where the gate is passed, an operation taking
\* an index and given -1 raises nothing, hands no index to _xpu_setDevice,
\* _xpu_synchronize or the property lookup, and leaves the device alone.
C8_Original ==
  (Returned /\ R.name \in TakesIndex /\ R.arg = -1 /\ is_initialized
     /\ nativeDevices > 0) =>
    /\ R.err = "none"
    /\ Calls("_xpu_setDevice") = {}
    /\ Calls("_xpu_synchronize") = {}
    /\ Calls("_get_device_properties") = {}

Native ==
  {"set_device", "current_device", "current_stream", "set_stream",
   "synchronize", "get_device_properties", "device.__enter__"}

\* C9 as claimed: without the backend every operation needing the runtime
\* raises NotImplementedError, and device_count() returns 0.
C9_Original ==
  (Returned /\ ~compiled) =>
    /\ R.name \in Native => R.err = "NotImplementedError"
    /\ R.name = "device_count" => (R.val = 0 /\ R.err = "none")

\* C9 as amended: without the backend, set_device, current_device,
\* current_stream, set_stream (with a stream), synchronize and
\* get_device_properties raise the AssertionError of _lazy_init (line 90),
\* entering a device guard raises the NotImplementedError of the dummy
\* _exchange_device (line 35), none of them calls into the runtime, and
\* device_count() returns 0.
C9_AbsentBackendRaises ==
  (Returned /\ ~compiled) =>
    /\ (R.name \in Native \ {"device.__enter__"}
          /\ ~(R.name = "set_stream" /\ R.arg = None)) =>
         (R.err = "AssertionError" /\ R.line = 90 /\ trace = <<>>)
    /\ R.name = "device.__enter__" =>
         (R.err = "NotImplementedError" /\ R.line = 35 /\ trace = <<>>)
    /\ R.name = "device_count" => (R.val = 0 /\ R.err = "none" /\ trace = <<>>)

\* C9 witness: without the backend, entering a device guard has raised
\* NotImplementedError and no guard is entered.
C9_Witness ==
  /\ Called("device.__enter__") /\ ~compiled
  /\ R.err = "NotImplementedError" /\ stack = <<>>

\* Every call into the runtime of the last call came after a normal return
\* of _lazy_init within that call.
Gated == \A i \in RuntimeCalls : \E j \in Calls("_lazy_init") : j < i

\* C10 as claimed: no public operation calls into the runtime before it has
\* run _lazy_init and seen or made the state INITIALIZED.
C10_Original == Returned => Gated

Ungated == {"device_count", "is_available", "device.__enter__", "device.__exit__"}

\* C10 as amended: set_device, get_device_properties, get_device_name,
\* get_device_capability, current_device, current_stream, set_stream,
\* synchronize, init and the stream context's __enter__ and __exit__ call into
\* the runtime only after _lazy_init has returned normally within the call;
\* device_count, is_available and the device guard's __enter__ and __exit__
\* call the runtime without passing the gate.
C10_GateFirst == (Returned /\ R.name \notin Ungated) => Gated

\* C10 witness: set_device(i) on an uninitialized process initialised it and
\* then set the device.
C10_Witness ==
  /\ Called("set_device") /\ R.err = "none"
  /\ Len(trace) = 3
  /\ trace[1].fn = "_xpu_init" /\ trace[2].fn = "_lazy_init"
  /\ trace[3].fn = "_xpu_setDevice"

\* The torch._C calls that take a device index.
IndexNatives ==
  {"_xpu_setDevice", "_xpu_exchangeDevice", "_xpu_maybeExchangeDevice",
   "_xpu_getCurrentStream", "_xpu_synchronize", "_get_device_properties"}

C12_FlagMonotonic ==
  [][/\ initialized => initialized'
     /\ initialized' # initialized =>
          /\ initialization_lock \in Threads
          /\ pc[initialization_lock] = "li_set"
          /\ pc'[initialization_lock] = "idle"
     /\ flagWrites' <= 1]_vars

\* C12 witness: the flag was set once, the process forked, and a later init()
\* raised at line 85 with the flag still true.
C12_Witness ==
  /\ initialized /\ flagWrites = 1 /\ badFork
  /\ \E t \in Threads :
       result[t].name = "init" /\ result[t].err = "RuntimeError" /\ pc[t] = "idle"

\* The torch._C calls of the last call, _xpu_init apart, in order.
NativeTrace == SelectSeq(trace, LAMBDA e : e.fn \notin NotRuntime)
Call(fn, a, b) == [fn |-> fn, a |-> a, b |-> b]

\* A stream context has just been entered without error and is on the stack.
Entered == Called("StreamContext.__enter__") /\ R.err = "none" /\ stack # <<>>

\* C14: when a StreamContext whose stream is on D1 has been entered without
\* error while D0 # D1 was current, src_prev_stream is the stream D0 had
\* before entry and dst_prev_stream the stream D1 had before entry, the
\* stream of D1 is the target, the stream of D0 and the current device are
\* unchanged, and the runtime was called in this order: current stream of
\* D0, exchange to D1, current stream of D1, exchange back to D0, set stream.
C14_CrossDeviceEntry ==
  (Entered /\ CrossDevice) =>
    LET D0 == Top.preDev
        D1 == StreamDevice(Top.stream) IN
    /\ Top.src_prev = Stream(Top.preStr[D0], D0)
    /\ Top.dst_prev = Stream(Top.preStr[D1], D1)
    /\ curStream[Main][D1] = StreamId(Top.stream)
    /\ curStream[Main][D0] = Top.preStr[D0]
    /\ curDevice[Main] = D0
    /\ NativeTrace = << Call("_xpu_getCurrentStream", D0, None),
                        Call("_xpu_exchangeDevice", D1, None),
                        Call("_xpu_getCurrentStream", D1, None),
                        Call("_xpu_maybeExchangeDevice", D0, None),
                        Call("_xpu_setStream", StreamId(Top.stream), D1) >>

\* C14 witness: a cross-device stream context has been entered; its stream
\* was not the current one of D1 and D0's stream was not the default one.
C14_Witness ==
  /\ Entered /\ CrossDevice
  /\ Top.preStr[Top.preDev] = 1
  /\ StreamId(Top.stream) # Top.preStr[StreamDevice(Top.stream)]
  /\ curStream[Main][StreamDevice(Top.stream)] = StreamId(Top.stream)

\* The set_stream calls of the last call, in order.
SetStreamCalls == SelectSeq(trace, LAMBDA e : e.fn = "set_stream")

\* The stream context on top of the stack is leaving and is no no-op.
AtStreamExit == AtExit("stream") /\ Top.stream # None /\ Top.idx # -1

\* It captured dst_prev_stream on entry: a device switch occurred.
Switched == Top.dst_prev # None

\* C15 as claimed: on the exit of a stream context that is no no-op, the first
\* set_stream call is the one with dst_prev_stream (line 268) if and only if a
\* device switch occurred on entry, and in every case the last set_stream
\* call is the one with src_prev_stream (line 269).
C15_Original ==
  AtStreamExit =>
    /\ SetStreamCalls # <<>>
    /\ Switched <=> SetStreamCalls[1] = Call("set_stream", Top.dst_prev, 268)
    /\ SetStreamCalls[Len(SetStreamCalls)] = Call("set_stream", Top.src_prev, 269)

\* C15 as amended: dst_prev_stream is read on exit if and only if it was
\* captured on entry; in a process that did not fork inside the block the
\* exit calls set_stream with dst_prev_stream first, if a switch occurred,
\* and with src_prev_stream last, each call reaching the runtime; in a
\* process that forked inside the block the first set_stream call raises the
\* RuntimeError of line 85 and the exit ends there, having set no stream.
C15_ReverseOrder ==
  AtStreamExit =>
    LET dst == Call("set_stream", Top.dst_prev, 268)
        src == Call("set_stream", Top.src_prev, 269) IN
    /\ Switched <=> StreamDevice(Top.src_prev) # StreamDevice(Top.stream)
    /\ SetStreamCalls # <<>>
    /\ Switched <=> SetStreamCalls[1] = dst
    /\ ~badFork =>
         /\ SetStreamCalls = IF Switched THEN <<dst, src>> ELSE <<src>>
         /\ NativeTrace =
              [i \in DOMAIN SetStreamCalls |->
                 Call("_xpu_setStream", StreamId(SetStreamCalls[i].a),
                      StreamDevice(SetStreamCalls[i].a))]
         /\ R.err = exc
    /\ badFork =>
         /\ Len(SetStreamCalls) = 1
         /\ NativeTrace = <<>>
         /\ R.err = "RuntimeError" /\ R.line = 85

\* C15 witness: a stream context that switched devices on entry has exited:
\* set_stream ran with dst_prev_stream, then with src_prev_stream, and both
\* changed the stream of their device back.
C15_Witness ==
  /\ AtStreamExit /\ Switched /\ ~badFork
  /\ Len(SetStreamCalls) = 2 /\ SetStreamCalls[2].b = 269
  /\ StreamId(Top.stream) # Top.preStr[StreamDevice(Top.stream)]
  /\ curStream[Main] = Top.preStr
  /\ R.err = "none"

\* C16: the __enter__ and the __exit__ of a StreamContext whose stream is None
\* or whose idx is -1 call nothing (the runtime, _lazy_init and _xpu_init
\* included) and change neither the current device, nor the current stream
\* of any device, nor the initialization state; __enter__ returns normally
\* and __exit__ lets an exception of the block go on.
C16_NoOpStreamContext ==
  [][(/\ pc'[Main] = "returned"
      /\ \/ /\ result'[Main].name = "StreamContext.__enter__"
            /\ (result'[Main].arg = None \/ stream_context_init(Start) = -1)
         \/ /\ result'[Main].name = "StreamContext.__exit__"
            /\ stack # <<>>
            /\ (Top.stream = None \/ Top.idx = -1))
     => /\ trace' = <<>>
        /\ UNCHANGED <<curDevice, curStream, gateVars>>
        /\ result'[Main].err =
             (IF result'[Main].name = "StreamContext.__exit__" THEN exc ELSE "none")]_vars

\* C16 witness: a StreamContext(None) is leaving on an initialized process
\* after its block changed a stream: nothing was called and the stream stays
\* changed.
C16_Witness ==
  /\ AtExit("stream") /\ Top.stream = None /\ Top.idx # -1
  /\ initialized /\ ~badFork
  /\ curStream[Main] # Top.preStr
  /\ trace = <<>> /\ R.err = "none"

\* C17 as claimed: once a _lazy_init call has failed in _xpu_init, no later
\* call invokes _xpu_init or makes the process initialized.
C17_Original ==
  [][initFailures > 0 => (initCalls' = initCalls /\ ~is_initialized')]_vars

\* C17 as amended: one operation, and so one _lazy_init call, invokes
\* _xpu_init at most once; an _xpu_init that raises ends the call with its
\* error and _initialized false; and once the process is in a bad fork or
\* when the backend is not compiled in, no call invokes _xpu_init or makes
\* the process initialized.
C17_NoRetryWithinCall ==
  [][/\ initCalls' \in {initCalls, initCalls + 1}
     /\ initFailures' # initFailures =>
          /\ pc'[Main] = "returned"
          /\ result'[Main].err = "NativeError" /\ result'[Main].line = 92
          /\ ~initialized'
     /\ (badFork \/ ~compiled) => (initCalls' = initCalls /\ ~is_initialized')]_vars

\* C17 witness: after an init() that failed in _xpu_init, a later init()
\* has called _xpu_init again and initialized the process.
C17_Witness ==
  /\ Called("init") /\ R.err = "none"
  /\ initFailures = 1 /\ initCalls = 2
  /\ Calls("_xpu_init") # {}
  /\ is_initialized

\* C18 as claimed: _xpu_getDeviceCount is called at most once in the process,
\* and every device_count() call returns the same value.
C18_Original ==
  /\ countCalls <= 1
  /\ \A t, u \in Threads :
       (result[t].name = "device_count" /\ result[u].name = "device_count") =>
         result[t].val = result[u].val

\* C18 as amended: the slot of the cache is written once and never changed; a
\* call runs the body of device_count, and so _xpu_getDeviceCount, only if it
\* looked the slot up while it was empty, so a thread calls
\* _xpu_getDeviceCount at most once and no call that starts after a value was
\* stored calls it; and every device_count() call returns the same value,
\* the one _xpu_getDeviceCount answers, or 0 without the backend.
C18_WriteOnceCache ==
  [][/\ countCache # NoCache => countCache' = countCache
     /\ \A t \in Threads :
          (pc[t] # "dc_body" /\ pc'[t] = "dc_body") => countCache = NoCache
     /\ countCalls' # countCalls =>
          /\ countCalls' = countCalls + 1
          /\ countCache = NoCache \/ countCache' = countCache
          /\ \E t \in Threads : pc[t] = "dc_body" /\ pc'[t] = "idle"
     /\ countCalls' <= NumThreads
     /\ \A t \in Threads :
          result'[t].name = "device_count" =>
            (result'[t].err = "none" /\ result'[t].val = DeviceCountValue)]_vars

\* C18 witness: two threads called device_count() for the first time together;
\* both missed the cache, _xpu_getDeviceCount ran twice and both got the same
\* value.
C18_Witness ==
  /\ countCalls = 2 /\ countCache = nativeDevices /\ nativeDevices > 0
  /\ \E t, u \in Threads :
       /\ t # u /\ pc[t] = "idle" /\ pc[u] = "idle"
       /\ result[t].name = "device_count" /\ result[u].name = "device_count"
       /\ result[t].val = nativeDevices /\ result[u].val = nativeDevices

SpecSeq == Init /\ [][NextSeq]_vars

\* ---------------------------------------------------- nested device guards
\* Main nests device guards up to MaxDepth deep and calls set_device inside
\* and outside the blocks.
NextNest ==
  \/ Resume
  \/ (Len(stack) < MaxDepth /\ DeviceEnter)
  \/ DeviceExit
  \/ SetDevice

SpecNest == Init /\ [][NextNest]_vars

\* Every guard entered and not yet left has an index in [0, device_count).
AllInRange == \A i \in DOMAIN stack : stack[i].kind = "device" /\ InRange(stack[i].idx)

\* C13: with device guards of in-range indices nested on one thread and left
\* innermost first, each guard holds as prev_idx the device that was current
\* just before its own entry, and when it has exited that device is current
\* again; for the outermost guard that is the device the nest was entered
\* from.
C13_NestedRoundTrip ==
  (AtExit("device") /\ AllInRange) =>
    /\ \A i \in DOMAIN stack : stack[i].prev_idx = stack[i].preDev
    /\ curDevice[Main] = Top.preDev
    /\ Len(stack) = 1 => curDevice[Main] = stack[1].preDev

\* C13 witness: the inner of two nested guards, each of which switched the
\* device, has exited: the outer guard's device is current, not the one the
\* nest was entered from.
C13_Witness ==
  /\ AtExit("device") /\ AllInRange /\ Len(stack) = 2
  /\ stack[1].idx # stack[1].preDev
  /\ stack[2].idx # stack[2].preDev
  /\ curDevice[Main] = stack[2].preDev
  /\ curDevice[Main] # stack[1].preDev

\* ------------------------------------------------- entries that meet a fault
\* The faults an entry may meet: the exchange, a current-stream query or the
\* setting of a stream raises on one device.
Faults ==
  {<<fn, d>> : fn \in {"_xpu_exchangeDevice", "_xpu_getCurrentStream", "_xpu_setStream"},
               d \in 0..(nativeDevices - 1)}

Faulted(f) == [Start EXCEPT !.fault = f]

\* with device(d), the runtime having the fault f.
DeviceEnterFault ==
  /\ Ready
  /\ \E d \in DeviceArgs, f \in Faults :
       LET idx == device_init(Faulted(f), d)
           m == device_enter(Faulted(f), idx) IN
         /\ Done("device.__enter__", d, IF Ok(m) THEN Return(m, None, 122) ELSE m)
         /\ stack' = IF Ok(m)
                       THEN Append(stack, Frame("device", idx, m.val, None, None, None))
                       ELSE stack

\* with stream(s), the runtime having the fault f.
StreamEnterFault ==
  /\ Ready
  /\ \E s \in StreamArgs, o \in NativeInitOutcomes, f \in Faults :
       LET idx == stream_context_init(Faulted(f))
           e == stream_enter(Faulted(f), s, idx, o) IN
         /\ Done("StreamContext.__enter__", s, e.run)
         /\ stack' = IF Ok(e.run)
                       THEN Append(stack, Frame("stream", idx, PrevUnset, s, e.src, e.dst))
                       ELSE stack

\* Main sets devices and streams and enters one guard at a time, with or
\* without a fault of the runtime during the entry.
NextFault ==
  \/ Resume
  \/ (Outermost /\ DeviceEnter)
  \/ (Outermost /\ StreamEnter)
  \/ (Outermost /\ DeviceEnterFault)
  \/ (Outermost /\ StreamEnterFault)
  \/ DeviceExit
  \/ StreamExit
  \/ Fork
  \/ SetDevice
  \/ SetStream

SpecFault == Init /\ [][NextFault]_vars

Enters == {"device.__enter__", "StreamContext.__enter__"}

\* C19: when device.__enter__ or StreamContext.__enter__ raises (_lazy_init
\* raising, or the exchange, a current-stream query or the setting of the
\* stream raising in the runtime), the current device and the current stream
\* of every device are what they were before the entry, the guard is not
\* entered, so that its __exit__ never runs, and a failed device.__enter__
\* has made no call that sets a device back.
C19_FailedEntryRestoresNothing ==
  [][(/\ pc'[Main] = "returned"
      /\ result'[Main].name \in Enters
      /\ result'[Main].err # "none")
     => /\ UNCHANGED <<curDevice, curStream>>
        /\ stack' = stack
        /\ result'[Main].name = "device.__enter__" =>
             \A i \in DOMAIN trace' : trace'[i].fn # "_xpu_maybeExchangeDevice"]_vars

\* C19 witness: StreamContext.__enter__ raised at the current-stream query
\* inside the nested device guard: the device was exchanged, the query
\* raised, the nested guard set the device back, and no guard is entered.
C19_Witness ==
  /\ Called("StreamContext.__enter__") /\ R.err = "NativeError" /\ R.line = 324
  /\ stack = <<>>
  /\ Len(NativeTrace) = 4
  /\ NativeTrace[2].fn = "_xpu_exchangeDevice" /\ NativeTrace[2].a # curDevice[Main]
  /\ NativeTrace[3].fn = "_xpu_getCurrentStream" /\ NativeTrace[3].a = NativeTrace[2].a
  /\ NativeTrace[4] = Call("_xpu_maybeExchangeDevice", curDevice[Main], None)

\* --------------------------------------------------------- fair scheduling
\* A step of thread t inside _lazy_init, the acquisition of the lock apart.
Step(t) ==
  \/ LazyInitCheck1(t)
  \/ LazyInitCheck2(t)
  \/ LazyInitNative(t)
  \/ LazyInitSet(t)

\* The threads call init() again and again, and the process may fork.
NextLive ==
  \/ Fork
  \/ \E t \in Threads :
    \/ CallInit(t)
    \/ LazyInitAcquire(t)
    \/ Step(t)

\* The threads under a fair scheduler: a thread inside _lazy_init goes on
\* running, _xpu_init included, and a thread waiting for a lock that is
\* released again and again gets it.  No thread has to start a call.
SpecLive ==
  /\ Init
  /\ [][NextLive]_vars
  /\ \A t \in Threads : WF_vars(Step(t)) /\ SF_vars(LazyInitAcquire(t))

InLazyInit == {"li_check1", "li_lock", "li_check2", "li_native", "li_set"}
InWithBlock == {"li_check2", "li_native", "li_set"}

\* C20: _initialization_lock is held only by a thread inside the with block
\* of _lazy_init, so a thread that has left _lazy_init on any path (lines 82,
\* 85, 90, 92 or 93) has released it; and under fair scheduling every thread
\* inside _lazy_init, a thread waiting for the lock included, eventually
\* returns or raises.
C20_LockReleased ==
  /\ [](\A t \in Threads :
          /\ initialization_lock = t => pc[t] \in InWithBlock
          /\ pc[t] \in InWithBlock => initialization_lock = t)
  /\ \A t \in Threads : (pc[t] \in InLazyInit) ~> (pc[t] = "idle")

\* C20 witness: one thread's init() raised in _xpu_init, and another thread's
\* init() then took the lock, initialized the process and returned; the lock
\* is free.
C20_Witness ==
  /\ initialization_lock = NoThread
  /\ \E t, u \in Threads :
       /\ pc[t] = "idle" /\ pc[u] = "idle"
       /\ result[t].name = "init" /\ result[t].err = "NativeError" /\ result[t].line = 92
       /\ result[u].name = "init" /\ result[u].err = "none" /\ result[u].line = 93
====
